---- MODULE Spec2Model ----
(***************************************************************************)
(* A model of the TSP genetic algorithm: City (src/src/city.py),           *)
(* Chromosome (src/src/chromosomes.py) and Nucleus (src/src/nucleus.py).   *)
(*                                                                         *)
(* Floating point statistics are modelled by exact rationals <<num, den>>  *)
(* and distances by integers: every problem instance below has integral    *)
(* pairwise distances, so tour distances are exact in the code as well.    *)
(***************************************************************************)
EXTENDS Integers, Sequences, FiniteSets, TLC

VARIABLES
    cities,       \* Nucleus.cities
    pop_size,     \* Nucleus.pop_size
    mutate_prob,  \* Nucleus.mutate_prob
    chromosomes,  \* Nucleus.chromosomes (in the bench: <<chrom_1, chrom_2>>)
    samples,      \* Nucleus.samples
    pc,           \* position of the caller / of the running method
    err,          \* the exception that ended the run ("" when none)
    left,         \* evolve: iterations of "for i in range(cnt)" still to run
    ret,          \* where reproduce / reproduce_most_fit returns to
    midx,         \* reproduce*: index of the member the mutation loop is at
    calls,        \* number of reproduce / reproduce_most_fit calls started
    swaps,        \* number of mutations that occurred
    xo,           \* bench: the reproduce call: draws, tours before and after
    measure,      \* bench: the get_tour_distance call: tour before, after, value
    elite,        \* watched runs: whether the copy of the first member is as it was
    sel,          \* the last random_select call of the caller: draw and returned index
    new_population, \* reproduce*: the local list new_population
    meth,         \* the generation method that is running
    cnt,          \* evolve: the argument cnt of the last call
    base,         \* evolve: the value of calls when the last call started
    fresh,        \* chromosomes is as calculate_all left it
    last          \* the last call of the caller that returned

vars == <<cities, pop_size, mutate_prob, chromosomes, samples, pc, err, left,
          ret, midx, calls, swaps, xo, measure, elite, sel, new_population, meth,
          cnt, base, fresh, last>>

---------------------------------------------------------------------------
(* Bounds of the model. *)

\* Largest population size a caller passes to the constructor.
MaxPopSize == 8
\* Largest number of city slots (cities * pop_size) of a constructed population.
MaxGenes == 16
\* The mutation probability denominator a caller passes.
MaxMutateProb == 2
\* Largest number of city slots (cities * pop_size per generation step) that the
\* generation steps of one run process.
MaxWork == 16
\* Largest number of mutations that occur in one run.
MaxSwaps == 1
\* random.uniform(0.0, 1.0) is drawn from {0, 1/RandDen, ..., (RandDen - 1)/RandDen}.
RandDen == 2

---------------------------------------------------------------------------
(* City *)

City(x, y, num) == [x |-> x, y |-> y, num |-> num]

\* Integer square root (floor).
RECURSIVE ISqrtFrom(_, _)
ISqrtFrom(n, r) == IF (r + 1) * (r + 1) > n THEN r ELSE ISqrtFrom(n, r + 1)

ISqrt(n) == ISqrtFrom(n, 0)

\* City.dist: euclidean distance (exact on the instances below).
Dist(a, b) == ISqrt((a.x - b.x) * (a.x - b.x) + (a.y - b.y) * (a.y - b.y))

\* Problem instances: cities with distinct ids and integral pairwise distances.
One == <<City(0, 0, 1)>>
Pair == <<City(0, 0, 1), City(3, 4, 2)>>
Tri == <<City(0, 0, 1), City(3, 0, 2), City(3, 4, 3)>>
Rect == <<City(0, 0, 1), City(0, 4, 2), City(3, 4, 3), City(3, 0, 4)>>

\* The unit square of src/test.py, (0,0,1), (0,1,2), (1,1,3), (1,0,4), with 1/29
\* as the unit of length: a side is 29 and a diagonal, 29 * sqrt(2) = 41.01, is
\* 41. A tour along the sides (4.0) is 116 and a tour over both diagonals
\* (4.83) is 140.
Square == <<City(0, 0, 1), City(0, 29, 2), City(29, 29, 3), City(29, 0, 4)>>

\* The instances a Nucleus is constructed over.
Instances == {One, Pair, Rect}

\* The instances of the bench.
BenchInstances == {One, Pair, Tri, Rect}

---------------------------------------------------------------------------
(* Sequences and permutations *)

Range(s) == {s[i] : i \in DOMAIN s}

\* All orders of the cities of cs.
Perms(cs) ==
    {p \in [1..Len(cs) -> Range(cs)] : \A c \in Range(cs) : \E i \in 1..Len(cs) : p[i] = c}

\* s is a permutation of cs: same length, every city of cs exactly once.
IsPermOf(s, cs) ==
    /\ Len(s) = Len(cs)
    /\ \A c \in Range(cs) : Cardinality({i \in DOMAIN s : s[i] = c}) =
                            Cardinality({i \in DOMAIN cs : cs[i] = c})
    /\ Range(s) = Range(cs)

\* Python subscript t[i] with a 0-based index.
At(t, i) == t[i + 1]

\* Python t[i] = v with a 0-based index.
Put(t, i, v) == [t EXCEPT ![i + 1] = v]

---------------------------------------------------------------------------
(* Chromosome *)

Zero == <<0, 1>>

\* Chromosome.__init__
Chromosome(t) ==
    [tour |-> t, length |-> Len(t), tour_distance |-> 0, normed_td |-> Zero,
     inversed_ntd |-> Zero, normed_intd |-> Zero, cumulative_nintd |-> Zero]

\* Chromosome.__deepcopy__: a new chromosome over copies of the cities; the
\* statistics are those of __init__, not those of the original.
DeepCopy(ch) == Chromosome(ch.tour)

\* A faulty get_tour_distance: the way back to the first city is not added.
GetTourDistanceOpen(ch) ==
    LET RECURSIVE Legs(_)
        Legs(i) == IF i >= ch.length - 1 THEN 0
                   ELSE Dist(At(ch.tour, i), At(ch.tour, i + 1)) + Legs(i + 1)
    IN  Legs(0)

\* Chromosome.get_tour_distance
RECURSIVE SumLegs(_, _)
SumLegs(t, i) ==
    IF i >= Len(t) - 1 THEN 0 ELSE Dist(At(t, i), At(t, i + 1)) + SumLegs(t, i + 1)

GetTourDistance(ch) ==
    SumLegs(ch.tour, 0) + Dist(At(ch.tour, ch.length - 1), At(ch.tour, 0))

\* The fill loop shared by both crossovers:
\*   while dest_i < stop:
\*       if src_tour[src_i] not in pick: dest_tour[dest_i] = src_tour[src_i]; dest_i += 1
\*       src_i = (src_i + 1) % self._length
\* steps counts the iterations; the loop is cut off after Fuel iterations.
RECURSIVE FillLoop(_, _, _, _, _, _, _, _)
FillLoop(n, src, dest, pick, src_i, dest_i, stop, steps) ==
    IF dest_i >= stop \/ steps >= 4 * n + 4
    THEN [dest |-> dest, src_i |-> src_i, steps |-> steps, done |-> dest_i >= stop]
    ELSE IF At(src, src_i) \notin pick
         THEN FillLoop(n, src, Put(dest, dest_i, At(src, src_i)), pick,
                       (src_i + 1) % n, dest_i + 1, stop, steps + 1)
         ELSE FillLoop(n, src, dest, pick, (src_i + 1) % n, dest_i, stop, steps + 1)

\* A faulty inclusive_crossover: the pick is read from src_tour, not dest_tour.
InclusiveCrossoverSrcPick(n, start, end, src_tour, dest_tour) ==
    LET pick == {At(src_tour, x) : x \in start..(end - 1)}
        before == FillLoop(n, src_tour, dest_tour, pick, start, 0, start, 0)
    IN  FillLoop(n, src_tour, before.dest, pick, before.src_i, end, n, before.steps).dest

\* A faulty inclusive_crossover: the scan of src_tour starts at end, not at start.
InclusiveRunScanFromEnd(n, start, end, src_tour, dest_tour) ==
    LET pick == {At(dest_tour, x) : x \in start..(end - 1)}
        before == FillLoop(n, src_tour, dest_tour, pick, end % n, 0, start, 0)
    IN  FillLoop(n, src_tour, before.dest, pick, before.src_i, end, n, before.steps)

\* A faulty inclusive_crossover: the second loop scans src_tour from start again.
InclusiveRunRescan(n, start, end, src_tour, dest_tour) ==
    LET pick == {At(dest_tour, x) : x \in start..(end - 1)}
        before == FillLoop(n, src_tour, dest_tour, pick, start, 0, start, 0)
    IN  FillLoop(n, src_tour, before.dest, pick, start, end, n, before.steps)

\* A faulty inclusive_crossover: dest_i is not moved to end before the second
\* loop, which then writes from start on.
InclusiveRunNoJump(n, start, end, src_tour, dest_tour) ==
    LET pick == {At(dest_tour, x) : x \in start..(end - 1)}
        before == FillLoop(n, src_tour, dest_tour, pick, start, 0, start, 0)
    IN  FillLoop(n, src_tour, before.dest, pick, before.src_i, start, n, before.steps)

\* A faulty inclusive_crossover: the positions are filled from end on and
\* around to start - 1, with src_tour scanned from end.
InclusiveRunWrapFill(n, start, end, src_tour, dest_tour) ==
    LET pick == {At(dest_tour, x) : x \in start..(end - 1)}
        after == FillLoop(n, src_tour, dest_tour, pick, end % n, end, n, 0)
    IN  FillLoop(n, src_tour, after.dest, pick, after.src_i, 0, start, after.steps)

\* Chromosome.inclusive_crossover: the new dest_tour (with the loop statistics).
InclusiveRun(n, start, end, src_tour, dest_tour) ==
    LET pick == {At(dest_tour, x) : x \in start..(end - 1)}
        before == FillLoop(n, src_tour, dest_tour, pick, start, 0, start, 0)
    IN  IF before.done
        THEN FillLoop(n, src_tour, before.dest, pick, before.src_i, end, n, before.steps)
        ELSE before

InclusiveCrossover(n, start, end, src_tour, dest_tour) ==
    InclusiveRun(n, start, end, src_tour, dest_tour).dest

\* A faulty exclusive_crossover: the scan of src_tour starts at end, not at start.
ExclusiveRunScanFromEnd(n, start, end, src_tour, dest_tour) ==
    LET pick == {At(dest_tour, i) : i \in 0..(end - 1)} \cup
                {At(dest_tour, i) : i \in start..(n - 1)}
    IN  FillLoop(n, src_tour, dest_tour, pick, end, end, start, 0)

\* Chromosome.exclusive_crossover: the new dest_tour (with the loop statistics).
ExclusiveRun(n, start, end, src_tour, dest_tour) ==
    LET pick == {At(dest_tour, i) : i \in 0..(end - 1)} \cup
                {At(dest_tour, i) : i \in start..(n - 1)}
    IN  FillLoop(n, src_tour, dest_tour, pick, start, end, start, 0)

ExclusiveCrossover(n, start, end, src_tour, dest_tour) ==
    ExclusiveRun(n, start, end, src_tour, dest_tour).dest

\* A faulty reproduce: no exit when start == end, which goes to the inclusive branch.
ReproduceToursNoExit(self, other, start, end) ==
    IF start <= end
    THEN <<InclusiveRun(self.length, start, end, other.tour, self.tour).dest,
           InclusiveRun(self.length, start, end, self.tour, other.tour).dest>>
    ELSE <<ExclusiveRun(self.length, start, end, other.tour, self.tour).dest,
           ExclusiveRun(self.length, start, end, self.tour, other.tour).dest>>

\* A faulty reproduce: self.tour is updated before the crossover into
\* tour_other, which then reads the new self.tour.
ReproduceToursChained(self, other, start, end) ==
    IF start = end
    THEN <<self.tour, other.tour>>
    ELSE IF start < end
         THEN LET first == InclusiveCrossover(self.length, start, end, other.tour, self.tour)
              IN  <<first, InclusiveCrossover(self.length, start, end, first, other.tour)>>
         ELSE LET first == ExclusiveCrossover(self.length, start, end, other.tour, self.tour)
              IN  <<first, ExclusiveCrossover(self.length, start, end, first, other.tour)>>

\* Chromosome.reproduce with the draws start and end: <<self.tour, other.tour>>
\* after the call.
ReproduceTours(self, other, start, end) ==
    IF start = end
    THEN <<self.tour, other.tour>>
    ELSE IF start < end
         THEN <<InclusiveCrossover(self.length, start, end, other.tour, self.tour),
                InclusiveCrossover(self.length, start, end, self.tour, other.tour)>>
         ELSE <<ExclusiveCrossover(self.length, start, end, other.tour, self.tour),
                ExclusiveCrossover(self.length, start, end, self.tour, other.tour)>>

\* Chromosome.reproduce with the draws start # end: the two crossover runs,
\* into tour_self and into tour_other, with their loop statistics.
ReproduceRuns(self, other, start, end) ==
    IF start < end
    THEN <<InclusiveRun(self.length, start, end, other.tour, self.tour),
           InclusiveRun(self.length, start, end, self.tour, other.tour)>>
    ELSE <<ExclusiveRun(self.length, start, end, other.tour, self.tour),
           ExclusiveRun(self.length, start, end, self.tour, other.tour)>>

\* A faulty mutate: the first city is overwritten, the second is not.
SwapCitiesLost(t, city_1, city_2) == [t EXCEPT ![city_1 + 1] = At(t, city_2)]

\* Chromosome.mutate after rand_val == 1, with the draws city_1 and city_2.
SwapCities(t, city_1, city_2) ==
    [t EXCEPT ![city_1 + 1] = At(t, city_2), ![city_2 + 1] = At(t, city_1)]

---------------------------------------------------------------------------
(* Rationals <<num, den>> with den > 0, kept in lowest terms. *)

RECURSIVE Gcd(_, _)
Gcd(a, b) == IF b = 0 THEN a ELSE Gcd(b, a % b)

Abs(a) == IF a < 0 THEN -a ELSE a

Norm(q) ==
    LET g == Gcd(Abs(q[1]), q[2])
    IN  IF q[1] = 0 THEN Zero ELSE <<q[1] \div g, q[2] \div g>>

OneQ == <<1, 1>>

RAdd(p, q) ==
    LET g == Gcd(p[2], q[2])
    IN  Norm(<<p[1] * (q[2] \div g) + q[1] * (p[2] \div g), (p[2] \div g) * q[2]>>)

RSub(p, q) == RAdd(p, <<-q[1], q[2]>>)

\* p / q for q > 0.
RDiv(p, q) ==
    LET g == Gcd(Abs(p[1]), q[1])
        h == Gcd(p[2], q[2])
    IN  IF p[1] = 0 THEN Zero
        ELSE Norm(<<(p[1] \div g) * (q[2] \div h), (p[2] \div h) * (q[1] \div g)>>)

RLess(p, q) == p[1] * q[2] < q[1] * p[2]

RLeq(p, q) == p[1] * q[2] <= q[1] * p[2]

---------------------------------------------------------------------------
(* Nucleus: the statistics *)

\* Nucleus.calculate_tour_distance
RECURSIVE TourDistanceFrom(_, _)
TourDistanceFrom(chs, i) ==
    IF i > Len(chs) THEN <<>>
    ELSE <<[chs[i] EXCEPT !.tour_distance = GetTourDistance(chs[i])]>> \o
         TourDistanceFrom(chs, i + 1)

CalculateTourDistance(chs) == TourDistanceFrom(chs, 1)

RECURSIVE TotalDistance(_, _)
TotalDistance(chs, i) ==
    IF i > Len(chs) THEN 0 ELSE chs[i].tour_distance + TotalDistance(chs, i + 1)

\* Nucleus.calculate_ntd: divides by the total distance.
NtdFails(chs) == Len(chs) > 0 /\ TotalDistance(chs, 1) = 0

RECURSIVE NtdFrom(_, _, _)
NtdFrom(chs, total_distance, i) ==
    IF i > Len(chs) THEN <<>>
    ELSE <<[chs[i] EXCEPT !.normed_td = Norm(<<chs[i].tour_distance, total_distance>>)]>> \o
         NtdFrom(chs, total_distance, i + 1)

CalculateNtd(chs) == NtdFrom(chs, TotalDistance(chs, 1), 1)

\* Nucleus.calculate_intd
RECURSIVE IntdFrom(_, _)
IntdFrom(chs, i) ==
    IF i > Len(chs) THEN <<>>
    ELSE <<[chs[i] EXCEPT !.inversed_ntd = RSub(OneQ, chs[i].normed_td)]>> \o
         IntdFrom(chs, i + 1)

CalculateIntd(chs) == IntdFrom(chs, 1)

RECURSIVE TotalInversed(_, _)
TotalInversed(chs, i) ==
    IF i > Len(chs) THEN Zero ELSE RAdd(chs[i].inversed_ntd, TotalInversed(chs, i + 1))

\* Nucleus.calculate_nintd: divides by the total of the inversed distances.
NintdFails(chs) == Len(chs) > 0 /\ TotalInversed(chs, 1) = Zero

RECURSIVE NintdFrom(_, _, _)
NintdFrom(chs, total, i) ==
    IF i > Len(chs) THEN <<>>
    ELSE <<[chs[i] EXCEPT !.normed_intd = RDiv(chs[i].inversed_ntd, total)]>> \o
         NintdFrom(chs, total, i + 1)

CalculateNintd(chs) == NintdFrom(chs, TotalInversed(chs, 1), 1)

\* A faulty calculate_all: the population is not sorted.
SortByDistanceSkipped(chs) == chs

\* list.sort(key=lambda x: x.tour_distance): stable, increasing.
RECURSIVE Insert(_, _)
Insert(sorted, ch) ==
    IF sorted = <<>> THEN <<ch>>
    ELSE IF ch.tour_distance < sorted[Len(sorted)].tour_distance
         THEN Append(Insert(SubSeq(sorted, 1, Len(sorted) - 1), ch), sorted[Len(sorted)])
         ELSE Append(sorted, ch)

RECURSIVE SortFrom(_, _, _)
SortFrom(chs, i, sorted) ==
    IF i > Len(chs) THEN sorted ELSE SortFrom(chs, i + 1, Insert(sorted, chs[i]))

SortByDistance(chs) == SortFrom(chs, 1, <<>>)

\* A faulty calculate_cnintd: the running total is not kept.
RECURSIVE CnintdLoopNoTotal(_, _)
CnintdLoopNoTotal(chs, i) ==
    IF i >= Len(chs) - 1 THEN chs
    ELSE CnintdLoopNoTotal(
             [chs EXCEPT ![i + 1].cumulative_nintd =
                 RAdd(At(chs, i).normed_intd, At(chs, i - 1).normed_intd)], i + 1)

CalculateCnintdNoTotal(chs) ==
    LET first == [chs EXCEPT ![1].cumulative_nintd = chs[1].normed_intd]
        mid == CnintdLoopNoTotal(first, 1)
    IN  [mid EXCEPT ![Len(chs)].cumulative_nintd = OneQ]

\* Nucleus.calculate_cnintd, for a population that is not empty:
\*   for i in range(1, len - 1): total += [i - 1].normed_intd
\*                               [i].cumulative_nintd = [i].normed_intd + total
RECURSIVE CnintdLoop(_, _, _)
CnintdLoop(chs, i, total) ==
    IF i >= Len(chs) - 1 THEN chs
    ELSE LET t == RAdd(total, At(chs, i - 1).normed_intd)
         IN  CnintdLoop([chs EXCEPT ![i + 1].cumulative_nintd = RAdd(At(chs, i).normed_intd, t)],
                        i + 1, t)

CalculateCnintd(chs) ==
    LET first == [chs EXCEPT ![1].cumulative_nintd = chs[1].normed_intd]
        mid == CnintdLoop(first, 1, Zero)
    IN  [mid EXCEPT ![Len(chs)].cumulative_nintd = OneQ]

\* Nucleus.calculate_all: the population it leaves and the exception it raises.
CalculateAll(chs) ==
    LET td == CalculateTourDistance(chs)
    IN  IF NtdFails(td) THEN [chs |-> td, err |-> "ZeroDivisionError"]
        ELSE LET intd == CalculateIntd(CalculateNtd(td))
             IN  IF NintdFails(intd) THEN [chs |-> intd, err |-> "ZeroDivisionError"]
                 ELSE LET sorted == SortByDistance(CalculateNintd(intd))
                      IN  IF Len(sorted) = 0 THEN [chs |-> sorted, err |-> "IndexError"]
                          ELSE [chs |-> CalculateCnintd(sorted), err |-> ""]

\* A faulty random_select: the upper end of a range belongs to the range.
RECURSIVE SelectFromLeq(_, _, _, _)
SelectFromLeq(chs, rand_float, prev, i) ==
    IF i > Len(chs) THEN Len(chs)
    ELSE IF RLeq(prev, rand_float) /\ RLeq(rand_float, chs[i].cumulative_nintd)
         THEN i
         ELSE SelectFromLeq(chs, rand_float, prev, i + 1)

RandomSelectLeq(chs, rand_float) == SelectFromLeq(chs, rand_float, Zero, 1)

\* Nucleus.random_select with the draw rand_float: the 1-based index of the
\* chromosome it returns. prev is never advanced by the loop.
RECURSIVE SelectFrom(_, _, _, _)
SelectFrom(chs, rand_float, prev, i) ==
    IF i > Len(chs) THEN Len(chs)
    ELSE IF RLeq(prev, rand_float) /\ RLess(rand_float, chs[i].cumulative_nintd)
         THEN i
         ELSE SelectFrom(chs, rand_float, prev, i + 1)

RandomSelect(chs, rand_float) == SelectFrom(chs, rand_float, Zero, 1)

---------------------------------------------------------------------------
(* Draws of the random source *)

\* random.shuffle(self.tour) in generate_population: any order of the cities;
\* for the four-city instance the model draws from these orders (by city id),
\* the shortest tour (distance 14) and a longest one (distance 18).
RectOrders == {<<1, 2, 3, 4>>, <<1, 2, 4, 3>>}

Shuffles(cs) ==
    IF Len(cs) = 4 THEN {[i \in 1..4 |-> cs[o[i]]] : o \in RectOrders} ELSE Perms(cs)

\* random.uniform(0.0, 1.0), which is 0.0 + 1.0 * random.random(): a float in [0, 1).
RandFloats == {<<k, RandDen>> : k \in 0..(RandDen - 1)}

NoXo == [called |-> FALSE]
NoSel == [called |-> FALSE]
NoMeasure == [called |-> FALSE]
\* The run is not watched.
NoElite == [watched |-> FALSE]
\* A watched run before its first generation step. kept: the last generation
\* step was a reproduce_most_fit, its new population has at index 0 the tour
\* of chromosomes[0] as calculate_all left it, and no mutation has changed it
\* there. held: this was so of the step before when the last step began.
Watched == [watched |-> TRUE, kept |-> FALSE, held |-> FALSE]

---------------------------------------------------------------------------
(* Nucleus: construction *)

\* A faulty size check: even sizes pass.
SizeOkEven(size) == size % 2 = 0

\* Nucleus.__init__: the check of the population size.
SizeOk(size) == size % 4 = 0

\* Nucleus.generate_population: the populations it can build.
GeneratePopulation(cs, size) == [1..size -> {Chromosome(t) : t \in Shuffles(cs)}]

Init ==
    /\ cities = <<>>
    /\ pop_size = 0
    /\ mutate_prob = 0
    /\ chromosomes = <<>>
    /\ samples = <<>>
    /\ pc = "new"
    /\ err = ""
    /\ left = 0
    /\ ret = ""
    /\ midx = 0
    /\ calls = 0
    /\ swaps = 0
    /\ xo = NoXo
    /\ measure = NoMeasure
    /\ elite = NoElite
    /\ sel = NoSel
    /\ new_population = <<>>
    /\ meth = ""
    /\ cnt = 0
    /\ base = 0
    /\ fresh = FALSE
    /\ last = ""

\* Nucleus(cities, pop_size, mutate_prob) over one of the instances insts.
ConstructOver(insts) ==
    /\ pc = "new"
    /\ \E cs \in insts, size \in 0..MaxPopSize, prob \in {MaxMutateProb} :
          /\ Len(cs) * size <= MaxGenes
          /\ cities' = cs
          /\ pop_size' = size
          /\ mutate_prob' = prob
          /\ samples' = <<>>
          /\ IF ~SizeOk(size)
             THEN /\ chromosomes' = <<>>
                  /\ err' = "ValueError"
                  /\ pc' = "raised"
                  /\ last' = ""
             ELSE /\ chromosomes' \in GeneratePopulation(cs, size)
                  /\ err' = ""
                  /\ pc' = "idle"
                  /\ last' = "construct"
    /\ UNCHANGED <<left, ret, midx, calls, swaps, xo, measure, elite, sel,
                   new_population, meth, cnt, base, fresh>>

Construct == ConstructOver(Instances)

---------------------------------------------------------------------------
(* Nucleus: one generation *)

\* The city slots one generation step processes.
StepWork == Len(cities) * pop_size

\* reproduce / reproduce_most_fit up to the loop: calculate_all, then
\* samples.append(self.chromosomes[0].tour_distance).
StepBegin(m, r) ==
    LET res == CalculateAll(chromosomes)
    IN  /\ calls' = calls + 1
        /\ chromosomes' = res.chs
        /\ xo' = NoXo
        /\ sel' = NoSel
        /\ last' = ""
        /\ new_population' = <<>>
        /\ midx' = 0
        /\ IF res.err # ""
           THEN /\ err' = res.err
                /\ pc' = "raised"
                /\ fresh' = FALSE
                /\ UNCHANGED <<samples, meth, ret, elite>>
           ELSE /\ samples' = Append(samples, res.chs[1].tour_distance)
                /\ elite' = IF elite.watched
                            THEN [Watched EXCEPT !.held = elite.kept]
                            ELSE elite
                /\ pc' = "breed"
                /\ meth' = m
                /\ ret' = r
                /\ fresh' = TRUE
                /\ UNCHANGED err

\* A faulty loop body: the copy of the second parent is not added.
QuadThree(p1, p2, start, end) ==
    LET cld_1 == DeepCopy(p1)
        cld_2 == DeepCopy(p2)
        t == ReproduceTours(cld_1, cld_2, start, end)
    IN  <<DeepCopy(p1), [cld_1 EXCEPT !.tour = t[1]], [cld_2 EXCEPT !.tour = t[2]]>>

\* A faulty loop body: the children-to-be are the parent copies themselves, not
\* copies of them, so that reproduce changes the parent copies.
QuadAliased(p1, p2, start, end) ==
    LET par_1 == DeepCopy(p1)
        par_2 == DeepCopy(p2)
        t == ReproduceTours(par_1, par_2, start, end)
        cld_1 == [par_1 EXCEPT !.tour = t[1]]
        cld_2 == [par_2 EXCEPT !.tour = t[2]]
    IN  <<cld_1, cld_2, cld_1, cld_2>>

\* A faulty loop body: the children are added before the parent copies.
QuadChildrenFirst(p1, p2, start, end) ==
    LET par_1 == DeepCopy(p1)
        par_2 == DeepCopy(p2)
        cld_1 == DeepCopy(par_1)
        cld_2 == DeepCopy(par_2)
        t == ReproduceTours(cld_1, cld_2, start, end)
    IN  <<[cld_1 EXCEPT !.tour = t[1]], [cld_2 EXCEPT !.tour = t[2]], par_1, par_2>>

\* The four chromosomes one loop iteration adds: copies of the parents, and
\* the children that cld_1.reproduce(cld_2) leaves, with the draws start, end.
Quad(p1, p2, start, end) ==
    LET par_1 == DeepCopy(p1)
        par_2 == DeepCopy(p2)
        cld_1 == DeepCopy(par_1)
        cld_2 == DeepCopy(par_2)
        t == ReproduceTours(cld_1, cld_2, start, end)
    IN  <<par_1, par_2, [cld_1 EXCEPT !.tour = t[1]], [cld_2 EXCEPT !.tour = t[2]]>>

\* One iteration of "for i in range(self.pop_size // 4)" with the parents p1, p2;
\* after the last one: self.chromosomes = new_population.
Breed(p1, p2) ==
    \E start \in 0..(p1.length - 1), end \in 0..p1.length :
        LET np == new_population \o Quad(p1, p2, start, end)
        IN  IF midx + 1 < pop_size \div 4
            THEN /\ new_population' = np
                 /\ midx' = midx + 1
                 /\ UNCHANGED <<chromosomes, pc, fresh, elite>>
            ELSE /\ chromosomes' = np
                 /\ elite' = IF elite.watched
                             THEN [elite EXCEPT !.kept = /\ meth = "reproduce_most_fit"
                                                          /\ np[1].tour = chromosomes[1].tour]
                             ELSE elite
                 /\ new_population' = <<>>
                 /\ midx' = 0
                 /\ pc' = "mutate"
                 /\ fresh' = FALSE

\* reproduce_most_fit: par_1 = self.chromosomes[2 * i], par_2 = self.chromosomes[2 * i + 1]
BreedMostFit ==
    /\ pc = "breed"
    /\ meth = "reproduce_most_fit"
    /\ Breed(At(chromosomes, 2 * midx), At(chromosomes, 2 * midx + 1))
    /\ UNCHANGED <<cities, pop_size, mutate_prob, samples, err, left, ret, calls,
                   swaps, xo, measure, sel, meth, cnt, base, last>>

\* reproduce: par_1 = self.random_select(), par_2 = self.random_select()
BreedRandom ==
    /\ pc = "breed"
    /\ meth = "reproduce"
    /\ \E r1 \in RandFloats, r2 \in RandFloats :
          Breed(chromosomes[RandomSelect(chromosomes, r1)],
                chromosomes[RandomSelect(chromosomes, r2)])
    /\ UNCHANGED <<cities, pop_size, mutate_prob, samples, err, left, ret, calls,
                   swaps, xo, measure, sel, meth, cnt, base, last>>

\* One iteration of "for chromosome in self.chromosomes: chromosome.mutate(...)";
\* after the last one the method returns.
MutateStep ==
    /\ pc = "mutate"
    /\ \E rand_val \in 1..mutate_prob :
          IF rand_val # 1
          THEN UNCHANGED <<chromosomes, swaps>>
          ELSE /\ swaps < MaxSwaps
               /\ \E city_1 \in 0..(At(chromosomes, midx).length - 1),
                     city_2 \in 0..(At(chromosomes, midx).length - 1) :
                     chromosomes' = [chromosomes EXCEPT ![midx + 1].tour =
                                        SwapCities(@, city_1, city_2)]
               /\ swaps' = swaps + 1
    /\ elite' = IF elite.watched /\ midx = 0
                THEN [elite EXCEPT !.kept = @ /\ chromosomes'[1].tour = chromosomes[1].tour]
                ELSE elite
    /\ IF midx + 1 < Len(chromosomes)
       THEN /\ midx' = midx + 1
            /\ UNCHANGED <<pc, left, last, meth, ret>>
       ELSE /\ midx' = 0
            /\ pc' = ret
            /\ ret' = ""
            /\ meth' = ""
            /\ left' = IF ret = "evolve" THEN left - 1 ELSE left
            /\ last' = IF ret = "evolve" THEN last ELSE meth
    /\ UNCHANGED <<cities, pop_size, mutate_prob, samples, err, calls, xo, measure,
                   sel, new_population, cnt, base, fresh>>

\* A caller calls reproduce().
ReproduceCall ==
    /\ pc = "idle"
    /\ (calls + 1) * StepWork <= MaxWork
    /\ StepBegin("reproduce", "idle")
    /\ cnt' = 0
    /\ base' = 0
    /\ UNCHANGED <<cities, pop_size, mutate_prob, left, swaps, measure>>

---------------------------------------------------------------------------
(* Nucleus.evolve *)

\* A caller calls evolve(c), the run processing at most work city slots.
EvolveCallWithin(work) ==
    /\ pc = "idle"
    /\ \E c \in 0..work :
          /\ (calls + c) * StepWork <= work
          /\ cnt' = c
          /\ left' = c
    /\ base' = calls
    /\ pc' = "evolve"
    /\ last' = ""
    /\ xo' = NoXo
    /\ sel' = NoSel
    /\ UNCHANGED <<cities, pop_size, mutate_prob, chromosomes, samples, err, ret,
                   midx, calls, swaps, measure, elite, new_population, meth, fresh>>

EvolveCall == EvolveCallWithin(MaxWork)

\* for i in range(cnt): self.reproduce_most_fit()
EvolveIter ==
    /\ pc = "evolve"
    /\ left > 0
    /\ StepBegin("reproduce_most_fit", "evolve")
    /\ UNCHANGED <<cities, pop_size, mutate_prob, left, swaps, measure, cnt, base>>

\* The loop of evolve is over: evolve returns.
EvolveReturn ==
    /\ pc = "evolve"
    /\ left = 0
    /\ pc' = "idle"
    /\ last' = "evolve"
    /\ UNCHANGED <<cities, pop_size, mutate_prob, chromosomes, samples, err, left,
                   ret, midx, calls, swaps, xo, measure, elite, sel, new_population,
                   meth, cnt, base, fresh>>

---------------------------------------------------------------------------
(* Nucleus: calls of the statistics *)

\* A caller calls calculate_all() (as plot_learning_curve does).
CalculateAllCall ==
    /\ pc = "idle"
    /\ LET res == CalculateAll(chromosomes)
       IN  /\ chromosomes' = res.chs
           /\ err' = res.err
           /\ pc' = IF res.err # "" THEN "raised" ELSE "idle"
           /\ fresh' = (res.err = "")
           /\ last' = IF res.err # "" THEN "" ELSE "calculate_all"
    /\ xo' = NoXo
    /\ sel' = NoSel
    /\ cnt' = 0
    /\ base' = 0
    /\ UNCHANGED <<cities, pop_size, mutate_prob, samples, left, ret, midx, calls,
                   swaps, measure, elite, new_population, meth>>

\* A caller calls random_select(); on an empty population chromosomes[-1] raises.
RandomSelectCall ==
    /\ pc = "idle"
    /\ IF Len(chromosomes) = 0
       THEN /\ err' = "IndexError"
            /\ pc' = "raised"
            /\ sel' = NoSel
            /\ last' = ""
       ELSE /\ \E r \in RandFloats :
                  sel' = [called |-> TRUE, rand_float |-> r,
                          idx |-> RandomSelect(chromosomes, r)]
            /\ last' = "random_select"
            /\ UNCHANGED <<err, pc>>
    /\ xo' = NoXo
    /\ cnt' = 0
    /\ base' = 0
    /\ UNCHANGED <<cities, pop_size, mutate_prob, chromosomes, samples, left, ret,
                   midx, calls, swaps, measure, elite, new_population, meth, fresh>>

Next ==
    \/ Construct
    \/ ReproduceCall
    \/ BreedMostFit
    \/ BreedRandom
    \/ MutateStep
    \/ EvolveCall
    \/ EvolveIter
    \/ EvolveReturn
    \/ CalculateAllCall
    \/ RandomSelectCall

Spec == Init /\ [][Next]_vars

---------------------------------------------------------------------------
(* The run of src/tsp_solve.py over the unit square: Nucleus(...), evolve(...). *)

ConstructSquare == ConstructOver({Square})

NextSquare ==
    \/ ConstructSquare
    \/ EvolveCall
    \/ EvolveIter
    \/ BreedMostFit
    \/ MutateStep
    \/ EvolveReturn

SpecSquare == Init /\ [][NextSquare]_vars

---------------------------------------------------------------------------
(* Runs of evolve over the four cities of Rect that are long enough for two  *)
(* generation steps of a population of four, watched: elite records whether  *)
(* the copy of the first member is still as the generation step made it.     *)

InitElite ==
    /\ cities = <<>>
    /\ pop_size = 0
    /\ mutate_prob = 0
    /\ chromosomes = <<>>
    /\ samples = <<>>
    /\ pc = "new"
    /\ err = ""
    /\ left = 0
    /\ ret = ""
    /\ midx = 0
    /\ calls = 0
    /\ swaps = 0
    /\ xo = NoXo
    /\ measure = NoMeasure
    /\ elite = Watched
    /\ sel = NoSel
    /\ new_population = <<>>
    /\ meth = ""
    /\ cnt = 0
    /\ base = 0
    /\ fresh = FALSE
    /\ last = ""

ConstructRect == ConstructOver({Rect})

\* src/tsp_solve.py: nucleus.evolve(...) follows the construction.
EvolveCallTwice ==
    /\ last = "construct"
    /\ EvolveCallWithin(2 * MaxWork)

NextElite ==
    \/ ConstructRect
    \/ EvolveCallTwice
    \/ EvolveIter
    \/ BreedMostFit
    \/ MutateStep
    \/ EvolveReturn

SpecElite == InitElite /\ [][NextElite]_vars

---------------------------------------------------------------------------
(* The bench of src/test.py: two chromosomes, chrom_1.reproduce(chrom_2). *)

\* cities_2 of src/test.py: as many cities, under other ids.
Foreign(cs) == [i \in 1..Len(cs) |-> City(cs[i].x, cs[i].y, cs[i].num + Len(cs))]

\* A list that shares the first half of its cities with cs.
Mixed(cs) == [i \in 1..Len(cs) |-> IF 2 * i <= Len(cs) THEN cs[i] ELSE Foreign(cs)[i]]

\* The tours chrom_2 is built over: the cities of chrom_1, other cities, or both.
BenchTours(cs) == Perms(cs) \cup Perms(Foreign(cs)) \cup Perms(Mixed(cs))

InitBench ==
    /\ cities \in BenchInstances
    /\ chromosomes \in {<<Chromosome(a), Chromosome(b)>> :
                            a \in Perms(cities), b \in BenchTours(cities)}
    /\ pop_size = 0
    /\ mutate_prob = 0
    /\ samples = <<>>
    /\ pc = "bench"
    /\ err = ""
    /\ left = 0
    /\ ret = ""
    /\ midx = 0
    /\ calls = 0
    /\ swaps = 0
    /\ xo = NoXo
    /\ measure = NoMeasure
    /\ elite = NoElite
    /\ sel = NoSel
    /\ new_population = <<>>
    /\ meth = ""
    /\ cnt = 0
    /\ base = 0
    /\ fresh = FALSE
    /\ last = ""

\* chrom_1.reproduce(chrom_2)
BenchReproduce ==
    /\ pc = "bench"
    /\ \E start \in 0..(chromosomes[1].length - 1), end \in 0..chromosomes[1].length :
          LET t == ReproduceTours(chromosomes[1], chromosomes[2], start, end)
              runs == ReproduceRuns(chromosomes[1], chromosomes[2], start, end)
          IN  /\ chromosomes' = <<[chromosomes[1] EXCEPT !.tour = t[1]],
                                  [chromosomes[2] EXCEPT !.tour = t[2]]>>
              /\ xo' = [called |-> TRUE, start |-> start, end |-> end,
                        self_before |-> chromosomes[1].tour,
                        other_before |-> chromosomes[2].tour,
                        self_after |-> t[1], other_after |-> t[2],
                        steps |-> IF start = end THEN <<0, 0>>
                                  ELSE <<runs[1].steps, runs[2].steps>>,
                        done |-> start = end \/ (runs[1].done /\ runs[2].done)]
    /\ pc' = "benched"
    /\ last' = "reproduce"
    /\ UNCHANGED <<cities, pop_size, mutate_prob, samples, err, left, ret, midx,
                   calls, swaps, measure, elite, sel, new_population, meth, cnt, base,
                   fresh>>

\* chrom_1.get_tour_distance() or chrom_2.get_tour_distance()
BenchTourDistance ==
    /\ pc = "bench"
    /\ \E k \in 1..2 :
          measure' = [called |-> TRUE, who |-> k, before |-> chromosomes[k],
                      value |-> GetTourDistance(chromosomes[k])]
    /\ pc' = "benched"
    /\ last' = "get_tour_distance"
    /\ UNCHANGED <<cities, pop_size, mutate_prob, chromosomes, samples, err, left,
                   ret, midx, calls, swaps, xo, elite, sel, new_population, meth, cnt,
                   base, fresh>>

NextBench == BenchReproduce \/ BenchTourDistance

SpecBench == InitBench /\ [][NextBench]_vars

---------------------------------------------------------------------------
(* Properties *)

Tours(chs) == {chs[i].tour : i \in DOMAIN chs}

\* C1: in every population built by generate_population and at every point of
\* every generation step after it (crossover and mutation included), each
\* member's tour holds exactly the cities of the nucleus, each exactly once.
PermutationInvariant ==
    pc # "new" =>
        \A t \in Tours(chromosomes) \cup Tours(new_population) : IsPermOf(t, cities)

\* C1 witness: a generation step over four cities has returned after a
\* mutation, and a member has an order that generate_population did not draw.
PermutationWitness ==
    /\ pc = "idle"
    /\ last = "reproduce"
    /\ swaps > 0
    /\ cities = Rect
    /\ \E t \in Tours(chromosomes) : t \notin Shuffles(Rect)

\* C2: when reproduce is called on two permutations of the same cities and
\* draws start # end, both tours it leaves are permutations of those cities.
CrossoverClosure ==
    (/\ xo.called
     /\ xo.start # xo.end
     /\ IsPermOf(xo.self_before, cities)
     /\ IsPermOf(xo.other_before, cities))
    => /\ chromosomes[1].tour = xo.self_after
       /\ chromosomes[2].tour = xo.other_after
       /\ IsPermOf(chromosomes[1].tour, cities)
       /\ IsPermOf(chromosomes[2].tour, cities)

\* C2 witness: a crossover with start > end over four cities changed both tours.
CrossoverClosureWitness ==
    /\ xo.called
    /\ xo.start > xo.end
    /\ cities = Rect
    /\ xo.self_after # xo.self_before
    /\ xo.other_after # xo.other_before

\* C3: when reproduce draws start = end, both tours are position by position
\* what they were before the call.
DegenerateCrossover ==
    (xo.called /\ xo.start = xo.end)
    => /\ chromosomes[1].tour = xo.self_before
       /\ chromosomes[2].tour = xo.other_before

\* C3 witness: reproduce drew start = end > 0 on two different tours of four cities.
DegenerateCrossoverWitness ==
    /\ xo.called
    /\ xo.start = xo.end
    /\ xo.start > 0
    /\ cities = Rect
    /\ xo.self_before # xo.other_before

\* C4: a construction with a size that is not divisible by 4 ends with the
\* ValueError and an empty population; one with a size divisible by 4 does not
\* raise it.
SizeCheck ==
    pc # "new" =>
        IF pop_size % 4 # 0
        THEN err = "ValueError" /\ pc = "raised" /\ chromosomes = <<>>
        ELSE err # "ValueError"

\* C4 witness: the construction with size 6 was refused.
SizeCheckWitness == err = "ValueError" /\ pop_size = 6 /\ chromosomes = <<>>

HistoryCountsCalls ==
    /\ Len(samples) = calls
    /\ (pc = "idle" /\ last = "evolve") => calls - base = cnt

\* C7 (as claimed): when evolve(cnt) with cnt >= 1 has returned, no member has
\* a smaller tour distance than the first member.
BestIsFirstAfterEvolve ==
    (pc = "idle" /\ last = "evolve" /\ cnt >= 1) =>
        \A i \in DOMAIN chromosomes :
            GetTourDistance(chromosomes[1]) <= GetTourDistance(chromosomes[i])

RECURSIVE FitnessSum(_, _)
FitnessSum(chs, i) ==
    IF i = 0 THEN Zero ELSE RAdd(FitnessSum(chs, i - 1), chs[i].normed_intd)

\* C8: after calculate_all the members are in increasing order of distance,
\* cumulative_nintd does not decrease along that order, is the sum of the
\* normed_intd up to and including the member for every member but the last,
\* and is exactly 1 for the last.
CumulativeFitness ==
    fresh =>
        LET n == Len(chromosomes)
        IN  /\ \A i \in 1..(n - 1) :
                  /\ chromosomes[i].tour_distance <= chromosomes[i + 1].tour_distance
                  /\ RLeq(chromosomes[i].cumulative_nintd, chromosomes[i + 1].cumulative_nintd)
                  /\ chromosomes[i].cumulative_nintd = FitnessSum(chromosomes, i)
            /\ chromosomes[n].cumulative_nintd = OneQ
            /\ \A i \in 1..n : chromosomes[i].tour_distance = GetTourDistance(chromosomes[i])

\* C8 witness: calculate_all has run on a population with different distances.
CumulativeFitnessWitness ==
    /\ fresh
    /\ Len(chromosomes) = 4
    /\ chromosomes[1].tour_distance < chromosomes[2].tour_distance
    /\ chromosomes[2].tour_distance < chromosomes[4].tour_distance

PrevCumulative(chs, i) == IF i = 1 THEN Zero ELSE chs[i - 1].cumulative_nintd

InRange(chs, i, r) ==
    RLeq(PrevCumulative(chs, i), r) /\ RLess(r, chs[i].cumulative_nintd)

\* C9: random_select on a population as calculate_all left it returns the
\* first member whose range [previous cumulative, cumulative) holds the draw,
\* the last member when no range holds it, and always a member.
SelectOne ==
    (sel.called /\ fresh) =>
        LET hits == {i \in DOMAIN chromosomes : InRange(chromosomes, i, sel.rand_float)}
        IN  /\ sel.idx \in DOMAIN chromosomes
            /\ IF hits = {}
               THEN sel.idx = Len(chromosomes)
               ELSE sel.idx \in hits /\ \A i \in hits : sel.idx <= i

\* C9 witness: a draw on the boundary of two ranges selected an inner member.
SelectOneWitness ==
    /\ sel.called
    /\ fresh
    /\ sel.idx > 1
    /\ sel.idx < Len(chromosomes)
    /\ sel.rand_float = chromosomes[sel.idx - 1].cumulative_nintd

\* C10 (as claimed): apart from the ValueError of the size check, no
\* operation on well-formed input raises.
NoRuntimeError == err \in {"", "ValueError"}

RECURSIVE ClosedLength(_, _)
ClosedLength(t, i) ==
    IF i = 0 THEN 0 ELSE Dist(t[i], t[(i % Len(t)) + 1]) + ClosedLength(t, i - 1)

\* C11: get_tour_distance returns the sum of the distances from each city of
\* the tour to the next one, the first city being next to the last, and leaves
\* the chromosome as it was; it is 0 for one city and twice the distance of
\* the two cities for two.
TourLength ==
    measure.called =>
        LET t == measure.before.tour
        IN  /\ measure.value = ClosedLength(t, Len(t))
            /\ chromosomes[measure.who] = measure.before
            /\ Len(t) = 1 => measure.value = 0
            /\ Len(t) = 2 => measure.value = 2 * Dist(t[1], t[2])

\* C11 witness: get_tour_distance returned 10 for the tour of the two cities
\* that are 5 apart.
TourLengthWitness ==
    /\ measure.called
    /\ Len(measure.before.tour) = 2
    /\ measure.value = 10

\* Python t[a:b] for 0 <= a <= b <= len(t).
Slice(t, a, b) == SubSeq(t, a + 1, b)

\* The positions of t outside [start, end): 0 .. start - 1, then end .. n - 1.
Outside(t, start, end) == Slice(t, 0, start) \o Slice(t, end, Len(t))

\* The positions of t outside [start, end), from end on and around the end of
\* the tour: end .. n - 1, then 0 .. start - 1.
Wrapped(t, start, end) == Slice(t, end, Len(t)) \o Slice(t, 0, start)

\* t read once around, from the 0-based index k on.
Circular(t, k) == [i \in 1..Len(t) |-> t[((k + i - 1) % Len(t)) + 1]]

\* The cities of t that are not in the set pick, in the order of t.
Without(t, pick) == SelectSeq(t, LAMBDA c : c \notin pick)

\* The first m cities that are not in pick, of filler read around from k on.
Filling(filler, pick, k, m) == SubSeq(Without(Circular(filler, k), pick), 1, m)

\* C13 (as claimed): when reproduce draws start < end, the tour left in self
\* has other's original cities of [start, end) at [start, end) and cities of
\* self's original order at all other positions; likewise for the tour left
\* in other, with self's cities of [start, end).
TransplantedSlice ==
    (xo.called /\ xo.start < xo.end /\ IsPermOf(xo.other_before, cities)) =>
        /\ Slice(xo.self_after, xo.start, xo.end) = Slice(xo.other_before, xo.start, xo.end)
        /\ Range(Outside(xo.self_after, xo.start, xo.end)) \subseteq Range(xo.self_before)
        /\ Slice(xo.other_after, xo.start, xo.end) = Slice(xo.self_before, xo.start, xo.end)
        /\ Range(Outside(xo.other_after, xo.start, xo.end)) \subseteq Range(xo.other_before)

\* C13 (amended): when reproduce draws start < end, the tour left in self has
\* self's own original cities of [start, end) at [start, end), and every other
\* position holds a city of other's original order that is not one of them;
\* likewise for the tour left in other, with the roles exchanged.
KeptSlice ==
    (xo.called /\ xo.start < xo.end) =>
        /\ Slice(xo.self_after, xo.start, xo.end) = Slice(xo.self_before, xo.start, xo.end)
        /\ Range(Outside(xo.self_after, xo.start, xo.end)) \subseteq
               Range(xo.other_before) \ Range(Slice(xo.self_before, xo.start, xo.end))
        /\ Slice(xo.other_after, xo.start, xo.end) = Slice(xo.other_before, xo.start, xo.end)
        /\ Range(Outside(xo.other_after, xo.start, xo.end)) \subseteq
               Range(xo.self_before) \ Range(Slice(xo.other_before, xo.start, xo.end))

\* C13 witness: a crossover with 0 < start < end < n on two tours of the same
\* four cities whose cities of [start, end) differ, which changed both tours.
KeptSliceWitness ==
    /\ xo.called
    /\ 0 < xo.start
    /\ xo.start < xo.end
    /\ xo.end < Len(xo.self_before)
    /\ cities = Rect
    /\ IsPermOf(xo.other_before, cities)
    /\ Slice(xo.self_before, xo.start, xo.end) # Slice(xo.other_before, xo.start, xo.end)
    /\ xo.self_after # xo.self_before
    /\ xo.other_after # xo.other_before

\* The tour child has, at its positions outside [start, end) taken from end on
\* and around (end .. n - 1, 0 .. start - 1), the cities of filler that are not
\* in pick, in the order of filler read from index k on.
FilledFromEnd(child, filler, pick, start, end, k) ==
    Wrapped(child, start, end) = Filling(filler, pick, k, Len(child) - (end - start))

\* The same for both tours, the cities of filler being read from index k on.
BothFilledFromEnd(k) ==
    \/ /\ FilledFromEnd(xo.self_after, xo.other_before,
                         Range(Slice(xo.self_before, xo.start, xo.end)), xo.start, xo.end, k)
       /\ FilledFromEnd(xo.other_after, xo.self_before,
                         Range(Slice(xo.other_before, xo.start, xo.end)), xo.start, xo.end, k)
    \/ /\ FilledFromEnd(xo.self_after, xo.self_before,
                         Range(Slice(xo.other_before, xo.start, xo.end)), xo.start, xo.end, k)
       /\ FilledFromEnd(xo.other_after, xo.other_before,
                         Range(Slice(xo.self_before, xo.start, xo.end)), xo.start, xo.end, k)

\* C14 (as claimed): when reproduce draws start < end, the positions outside
\* [start, end) of each tour, taken from end on and around to start - 1, hold
\* the filling parent's cities that are not in the slice, in that parent's
\* order. The claim is taken to hold when it does for the parent's order read
\* from index 0 or read around from index end, and for the filling parent
\* being the other tour (slice: the tour's own) or the tour itself (slice: the
\* other tour's).
FillFromEnd ==
    (xo.called /\ xo.start < xo.end /\ IsPermOf(xo.other_before, cities)) =>
        BothFilledFromEnd(0) \/ BothFilledFromEnd(xo.end)

\* C14 (amended): when reproduce draws start < end, the positions outside
\* [start, end) of the tour left in self, taken in the order 0 .. start - 1,
\* end .. n - 1, hold the cities of other's original order that are not in
\* self's original [start, end), in other's order read around from index
\* start; likewise for the tour left in other, with the roles exchanged.
FillFromStart ==
    (xo.called /\ xo.start < xo.end) =>
        LET m == Len(xo.self_before) - (xo.end - xo.start)
        IN  /\ Outside(xo.self_after, xo.start, xo.end) =
                   Filling(xo.other_before,
                           Range(Slice(xo.self_before, xo.start, xo.end)), xo.start, m)
            /\ Outside(xo.other_after, xo.start, xo.end) =
                   Filling(xo.self_before,
                           Range(Slice(xo.other_before, xo.start, xo.end)), xo.start, m)

\* C14 witness: a crossover with 0 < start < end < n on two tours of the same
\* four cities, in which a city of the slice was skipped and both tours changed.
FillFromStartWitness ==
    /\ xo.called
    /\ 0 < xo.start
    /\ xo.start < xo.end
    /\ xo.end < Len(xo.self_before)
    /\ cities = Rect
    /\ IsPermOf(xo.other_before, cities)
    /\ xo.steps[1] > Len(xo.self_before) - (xo.end - xo.start)
    /\ xo.self_after # xo.self_before
    /\ xo.other_after # xo.other_before
    /\ Wrapped(xo.self_after, xo.start, xo.end) # Outside(xo.self_after, xo.start, xo.end)

\* The cities exclusive_crossover keeps in t: those at [0, end) and [start, n).
Kept(t, start, end) == Range(Slice(t, 0, end)) \cup Range(Slice(t, start, Len(t)))

\* C15: when reproduce draws start > end, each tour keeps at [0, end) and
\* [start, n) the cities it had there, and its positions [end, start) hold, from
\* left to right, the first cities of the other tour's original order read
\* around from index start that are not among the kept ones.
ExclusiveFill ==
    (xo.called /\ xo.start > xo.end) =>
        LET n == Len(xo.self_before)
        IN  /\ Slice(xo.self_after, 0, xo.end) = Slice(xo.self_before, 0, xo.end)
            /\ Slice(xo.self_after, xo.start, n) = Slice(xo.self_before, xo.start, n)
            /\ Slice(xo.self_after, xo.end, xo.start) =
                   Filling(xo.other_before, Kept(xo.self_before, xo.start, xo.end),
                           xo.start, xo.start - xo.end)
            /\ Slice(xo.other_after, 0, xo.end) = Slice(xo.other_before, 0, xo.end)
            /\ Slice(xo.other_after, xo.start, n) = Slice(xo.other_before, xo.start, n)
            /\ Slice(xo.other_after, xo.end, xo.start) =
                   Filling(xo.self_before, Kept(xo.other_before, xo.start, xo.end),
                           xo.start, xo.start - xo.end)

\* C15 witness: a crossover with 0 < end < start < n and a gap of two positions
\* on two tours of the same four cities, which changed both tours.
ExclusiveFillWitness ==
    /\ xo.called
    /\ 0 < xo.end
    /\ xo.start = xo.end + 2
    /\ xo.start < Len(xo.self_before)
    /\ IsPermOf(xo.other_before, cities)
    /\ xo.self_after # xo.self_before
    /\ xo.other_after # xo.other_before

\* C18: for the draws of a reproduce call, reproduce on the same two tours in
\* the other order leaves the same two tours, each in the other chromosome:
\* the tour left in other is built from self's order as it was before the
\* call, as the tour left in self is built from other's.
ReproduceSymmetric ==
    xo.called =>
        LET swapped == ReproduceTours(Chromosome(xo.other_before),
                                      Chromosome(xo.self_before), xo.start, xo.end)
        IN  /\ swapped[1] = xo.other_after
            /\ swapped[2] = xo.self_after

\* C18 witness: a crossover on two different tours of the same four cities
\* changed both, and the tour left in other is not what a crossover from the
\* tour left in self would have made of it.
ReproduceSymmetricWitness ==
    /\ xo.called
    /\ xo.start < xo.end
    /\ cities = Rect
    /\ IsPermOf(xo.other_before, cities)
    /\ xo.self_after # xo.self_before
    /\ xo.other_after # xo.other_before
    /\ xo.other_after # InclusiveCrossover(Len(xo.self_before), xo.start, xo.end,
                                           xo.self_after, xo.other_before)

\* C20: reproduce on two tours of n cities without duplicates, over the same
\* cities or not, ends for every draw, and each crossover advances its source
\* index at most n times in all.
CrossoverTerminates ==
    xo.called =>
        /\ xo.done
        /\ xo.steps[1] <= Len(xo.self_before)
        /\ xo.steps[2] <= Len(xo.self_before)

\* C20 witness: a crossover of two tours over different cities (as chrom_1 and
\* chrom_2 of the test script) has ended.
CrossoverTerminatesWitness ==
    /\ xo.called
    /\ xo.start # xo.end
    /\ Len(xo.self_before) = 4
    /\ Range(xo.self_before) \cap Range(xo.other_before) = {}
    /\ xo.done
    /\ xo.steps[1] > 0

\* C16: when the loop of reproduce_most_fit has built the new population (and
\* before the mutation loop), for each i < pop_size / 4 its members 4i and
\* 4i + 1 have the tours of members 2i and 2i + 1 of the old population, which
\* is in increasing order of distance, and its members 4i + 2 and 4i + 3 have
\* the two tours some draw of reproduce leaves of those two tours; no other
\* member of the old population is used.
ElitistComposition ==
    [][(pc = "breed" /\ meth = "reproduce_most_fit" /\ pc' = "mutate") =>
          /\ \A j \in 1..(Len(chromosomes) - 1) :
                 GetTourDistance(chromosomes[j]) <= GetTourDistance(chromosomes[j + 1])
          /\ Len(chromosomes') = 4 * (pop_size \div 4)
          /\ \A i \in 0..((pop_size \div 4) - 1) :
                 /\ At(chromosomes', 4 * i).tour = At(chromosomes, 2 * i).tour
                 /\ At(chromosomes', 4 * i + 1).tour = At(chromosomes, 2 * i + 1).tour
                 /\ \E start \in 0..(Len(cities) - 1), end \in 0..Len(cities) :
                        <<At(chromosomes', 4 * i + 2).tour, At(chromosomes', 4 * i + 3).tour>> =
                            ReproduceTours(At(chromosomes, 2 * i), At(chromosomes, 2 * i + 1),
                                           start, end)]_vars

\* C16 witness: the loop of reproduce_most_fit has just built a population of
\* tours of four cities in which both children differ from their parents.
ElitistCompositionWitness ==
    /\ pc = "mutate"
    /\ meth = "reproduce_most_fit"
    /\ midx = 0
    /\ cities = Rect
    /\ chromosomes[3].tour # chromosomes[1].tour
    /\ chromosomes[4].tour # chromosomes[2].tour

\* The smallest tour distance of a population that is not empty.
MinDistance(chs) ==
    CHOOSE d \in {GetTourDistance(chs[i]) : i \in DOMAIN chs} :
        \A i \in DOMAIN chs : d <= GetTourDistance(chs[i])

\* C17: a generation step that adds an entry to samples adds exactly one, at
\* the end, and it is the smallest tour distance of the population the step
\* started with (which the step has put first, before it builds the new one).
HistoryEntryIsBest ==
    [][samples' # samples =>
          /\ Len(chromosomes) > 0
          /\ samples' = Append(samples, MinDistance(chromosomes))
          /\ Tours(chromosomes') = Tours(chromosomes)
          /\ GetTourDistance(chromosomes'[1]) = MinDistance(chromosomes)]_vars

\* C17 witness: a generation step on four cities has recorded the distance 14
\* of a generation that has a member of distance 18, and has not replaced it.
HistoryEntryIsBestWitness ==
    /\ pc = "breed"
    /\ midx = 0
    /\ cities = Rect
    /\ samples # <<>>
    /\ samples[Len(samples)] = 14
    /\ \E i \in DOMAIN chromosomes : GetTourDistance(chromosomes[i]) = 18

\* C19 (as claimed): when evolve(cnt) with cnt >= 1 has returned, the
\* tour_distance field of the first member is the distance of its tour.
CachedDistanceOfBest ==
    (pc = "idle" /\ last = "evolve" /\ cnt >= 1 /\ Len(chromosomes) > 0) =>
        chromosomes[1].tour_distance = GetTourDistance(chromosomes[1])

\* The first member is a tour of the optimal distance: four sides of the square.
SquareConverged ==
    /\ Len(chromosomes) > 0
    /\ GetTourDistance(chromosomes[1]) = 4 * Dist(Square[1], Square[2])

\* C12 (as claimed, in the form a finite run refutes): over the unit square
\* and with a size divisible by 4, evolve goes on until the first member has
\* the optimal distance 4.0: no run of it is ended by an exception while the
\* first member is not an optimal tour.
ConvergesOnSquare ==
    (cities = Square /\ pop_size % 4 = 0 /\ pc = "raised") => SquareConverged

\* C22 (as claimed): when reproduce is called on two tours of the same order,
\* both tours have that order after the call, for every draw of start and end.
IdenticalParentsIdentity ==
    (xo.called /\ xo.self_before = xo.other_before) =>
        /\ xo.self_after = xo.self_before
        /\ xo.other_after = xo.self_before

\* C22 (amended): when reproduce is called on two tours of the same order, the
\* two tours are equal after the call for every draw; they have the original
\* order when start >= end, when start = 0 and when end = n; when
\* 0 < start < end < n they keep the original cities of [start, end) in place
\* and hold at the positions 0 .. start - 1, end .. n - 1 the other cities in
\* the order original[end:] + original[:start], which is not the original order.
IdenticalParents ==
    (xo.called /\ xo.self_before = xo.other_before) =>
        LET orig == xo.self_before
            n == Len(orig)
        IN  /\ xo.other_after = xo.self_after
            /\ (xo.start >= xo.end \/ xo.start = 0 \/ xo.end = n) =>
                   xo.self_after = orig
            /\ (0 < xo.start /\ xo.start < xo.end /\ xo.end < n) =>
                   /\ Slice(xo.self_after, xo.start, xo.end) = Slice(orig, xo.start, xo.end)
                   /\ Outside(xo.self_after, xo.start, xo.end) = Wrapped(orig, xo.start, xo.end)
                   /\ xo.self_after # orig

\* C22 witness: a crossover with 0 < start < end < n on two tours of the same
\* order of four cities has ended.
IdenticalParentsWitness ==
    /\ xo.called
    /\ xo.self_before = xo.other_before
    /\ Len(xo.self_before) = 4
    /\ 0 < xo.start
    /\ xo.start < xo.end
    /\ xo.end < Len(xo.self_before)
    /\ xo.done

\* C21: in a run of evolve, (1) the generation step puts the tour of the first
\* member of the sorted generation, whose distance is the last entry of
\* samples, unchanged at index 0 of the new population; (2) after that and
\* until the next generation step begins, that tour is changed only by the
\* mutation of member 0, when a swap occurs; (3) when the next generation step
\* begins and no mutation has changed that tour, the entry it adds to samples
\* is not greater than the entry before it.
ElitistHistory ==
    [][/\ (pc = "breed" /\ pc' = "mutate") =>
              /\ chromosomes'[1].tour = chromosomes[1].tour
              /\ GetTourDistance(chromosomes[1]) = MinDistance(chromosomes)
              /\ GetTourDistance(chromosomes'[1]) = samples[Len(samples)]
              /\ elite'.kept
       /\ (pc # "breed" /\ samples' = samples /\ Len(chromosomes) > 0
              /\ chromosomes'[1].tour # chromosomes[1].tour) =>
              /\ pc = "mutate"
              /\ midx = 0
              /\ swaps' = swaps + 1
       /\ (elite.kept /\ samples' = samples) =>
              /\ elite'.kept = (chromosomes'[1].tour = chromosomes[1].tour)
              /\ GetTourDistance(chromosomes[1]) = samples[Len(samples)]
       /\ (samples' # samples /\ samples # <<>> /\ elite.kept) =>
              samples'[Len(samples')] <= samples[Len(samples)]]_vars

\* C21 witness: the second generation step of a run has begun; the first had
\* left the tour of its first member, of distance 18, unchanged at index 0
\* while a mutation changed another member, and the second entry of samples
\* is smaller than the first.
ElitistHistoryWitness ==
    /\ pc = "breed"
    /\ elite.watched
    /\ elite.held
    /\ swaps = 1
    /\ Len(samples) = 2
    /\ samples[1] = 18
    /\ samples[2] < samples[1]

====
